---- MODULE Spec2Model ----
(***************************************************************************)
(* Unification engine (src/src/infer.rs) and the payload types built on   *)
(* it (src/src/ty.rs).                                                     *)
(*                                                                         *)
(* The heap is the set of Rc<RefCell<InferTy<T>>> cells ever allocated; a  *)
(* cell is named by its index in the sequence `heap`.  An InferTyRef is a  *)
(* cell index.  Every operation is a function from a heap to a heap and a  *)
(* result, evaluated the way the Rust code evaluates it, including the     *)
(* RefCell borrows that are alive while a recursive call runs.             *)
(***************************************************************************)
EXTENDS Integers, Sequences, FiniteSets, TLC

VARIABLES heap, last, unified

vars == <<heap, last, unified>>

(***************************************************************************)
(* Bounds of the model.                                                    *)
(***************************************************************************)
MaxCells == 4
MaxArgs == 1
MaxDepth == 12
MaxIntCells == 2
MaxAliasCells == 6
MaxRowCells == 12

(***************************************************************************)
(* Payloads: the enums Ty, IntTy and StructTy of ty.rs, as one record      *)
(* shape.  k is the variant; r the TyRef / IntTyRef / StructTyRef held by  *)
(* Ty::Ref, Ty::Int, Ty::Struct; int the Int of IntTy::Int; name and       *)
(* fields the KnownStruct; req the HashMap of StructTy::WithFields.        *)
(***************************************************************************)
NoInt == [signedness |-> "None", size |-> 0]

NoReq == [n \in {} |-> 0]

Payload(k, r, int, name, fields, req) ==
    [k |-> k, r |-> r, int |-> int, name |-> name, fields |-> fields, req |-> req]

NoTy == Payload("None", 0, NoInt, "", <<>>, NoReq)

TyBool == Payload("Bool", 0, NoInt, "", <<>>, NoReq)

TyRefP(r) == Payload("Ref", r, NoInt, "", <<>>, NoReq)

TyIntP(r) == Payload("Int", r, NoInt, "", <<>>, NoReq)

TyStructP(r) == Payload("Struct", r, NoInt, "", <<>>, NoReq)

TyAny == Payload("TyAny", 0, NoInt, "", <<>>, NoReq)

MkInt(signedness, size) == [signedness |-> signedness, size |-> size]

IntTyInt(int) == Payload("IntInt", 0, int, "", <<>>, NoReq)

IntTyAny == Payload("IntAny", 0, NoInt, "", <<>>, NoReq)

Field(name, ty) == [name |-> name, ty |-> ty]

StructKnown(name, fields) == Payload("Known", 0, NoInt, name, fields, NoReq)

StructWithFields(req) == Payload("WithFields", 0, NoInt, "", <<>>, req)

Signedness == {"Signed", "Unsigned"}

Size == {8, 16, 32}

AllInts == {MkInt(sg, sz) : sg \in Signedness, sz \in Size}

AllIntTys == {IntTyAny} \cup {IntTyInt(i) : i \in AllInts}

(***************************************************************************)
(* Cells: the enum InferTy<T>.  s is the payload type T of the cell        *)
(* ("Ty", "Int" or "Struct"), which Rust keeps in the type of the handle.  *)
(***************************************************************************)
AnyCell(s) == [s |-> s, tag |-> "Any", ref |-> 0, ty |-> NoTy, args |-> <<>>]

EqualCell(s, ref) == [s |-> s, tag |-> "Equal", ref |-> ref, ty |-> NoTy, args |-> <<>>]

KnownCell(s, ty, args) == [s |-> s, tag |-> "Known", ref |-> 0, ty |-> ty, args |-> args]

Cells(h) == 1..Len(h)

(***************************************************************************)
(* Results of unify: Result<InferTy<T>, ()>, or the abort of the process.  *)
(* st is "Ok", "Err" or "Panic"; why names the panic.                      *)
(***************************************************************************)
Ok(h, val) == [h |-> h, st |-> "Ok", why |-> "", val |-> val]

Fail(h, st, why) == [h |-> h, st |-> st, why |-> why, val |-> AnyCell("Int")]

(***************************************************************************)
(* IntTy::unify (ty.rs:93-103): a pure merge of two integer payloads.      *)
(***************************************************************************)
IntTyUnifyEqOnly(a, b) ==
    IF a = b THEN [st |-> "Ok", ty |-> a] ELSE [st |-> "Err", ty |-> NoTy]

IntTyUnify(a, b) ==
    CASE a.k = "IntAny" /\ b.k = "IntAny" -> [st |-> "Ok", ty |-> IntTyAny]
      [] b.k = "IntAny" -> [st |-> "Ok", ty |-> a]
      [] a.k = "IntAny" -> [st |-> "Ok", ty |-> b]
      [] OTHER -> IF a.int = b.int
                  THEN [st |-> "Ok", ty |-> IntTyInt(a.int)]
                  ELSE [st |-> "Err", ty |-> NoTy]

(***************************************************************************)
(* IntTy::concrete (ty.rs:104-109).                                        *)
(***************************************************************************)
\* an IntTy::concrete without the default for IntTy::Any
IntTyConcreteNoDefault(ty) ==
    IF ty.k = "IntInt" THEN ty.int ELSE NoInt

IntTyConcrete(ty) ==
    IF ty.k = "IntInt" THEN ty.int ELSE MkInt("Signed", 32)

(***************************************************************************)
(* unify (infer.rs:42-84).                                                 *)
(*   bor  : the cells on which an enclosing, still running call of unify   *)
(*          holds a Ref (a_ref, b_ref of the Known x Known arm);           *)
(*   ord  : the order in which a HashMap of required fields is iterated;   *)
(*   fuel : the depth of recursion left before the stack overflows.        *)
(***************************************************************************)
RECURSIVE Unify(_, _, _, _, _, _)
RECURSIVE UnifyArgs(_, _, _, _, _, _, _, _)
RECURSIVE TUnify(_, _, _, _, _, _)
RECURSIVE RequiredLoop(_, _, _, _, _, _, _, _)
RECURSIVE WithFieldsLoop(_, _, _, _, _, _, _, _)

\* infer.rs:43  Rc::ptr_eq(&a.0, &b.0)
PtrEqNever(a, b) == FALSE

PtrEq(a, b) == a = b

\* infer.rs:63  (Any, Any) => InferTy::Equal(InferTyRef::any())
AnyAnyDirect(h, a, b) == Ok(h, EqualCell(h[a].s, b))

AnyAny(h, a, b) ==
    Ok(Append(h, AnyCell(h[a].s)), EqualCell(h[a].s, Len(h) + 1))

\* infer.rs:64  (Any, ty) | (ty, Any) => ty.clone()
AnyKnownNoArgs(h, ty) == Ok(h, KnownCell(ty.s, ty.ty, <<>>))

AnyKnown(h, ty) == Ok(h, ty)

\* infer.rs:81-83  both cells are overwritten with the unified InferTy;
\* borrow_mut panics on a cell that an enclosing frame still borrows.
WriteFirstOnly(r, a, b, bor) ==
    IF a \in bor
    THEN Fail(r.h, "Panic", "borrow")
    ELSE Ok([r.h EXCEPT ![a] = r.val], r.val)

WriteBoth(r, a, b, bor) ==
    IF a \in bor
    THEN Fail(r.h, "Panic", "borrow")
    ELSE IF b \in bor
         THEN Fail([r.h EXCEPT ![a] = r.val], "Panic", "borrow")
         ELSE Ok([r.h EXCEPT ![a] = r.val, ![b] = r.val], r.val)

\* infer.rs:72-75  the loop over the zipped args; each unified child is put
\* in a new cell.
UnifyArgs(h, args_a, args_b, i, args, bor, ord, fuel) ==
    IF i > Len(args_a)
    THEN [h |-> h, st |-> "Ok", why |-> "", args |-> args]
    ELSE LET r == Unify(h, args_a[i], args_b[i], bor, ord, fuel)
         IN  IF r.st # "Ok"
             THEN [h |-> r.h, st |-> r.st, why |-> r.why, args |-> args]
             ELSE UnifyArgs(Append(r.h, r.val), args_a, args_b, i + 1,
                            Append(args, Len(r.h) + 1), bor, ord, fuel)

\* infer.rs:66-78  the Known x Known arm; a_ref and b_ref stay borrowed.
KnownKnown(h, a, b, bor, ord, fuel) ==
    LET m == TUnify(h, h[a].ty, h[b].ty, bor \cup {a, b}, ord, fuel - 1)
    IN  IF m.st = "Panic"
        THEN Fail(m.h, "Panic", m.why)
        ELSE IF m.st = "Err"
        THEN Fail(m.h, "Panic", "payload")
        ELSE IF Len(h[a].args) # Len(h[b].args)
        THEN Fail(m.h, "Panic", "arity")
        ELSE LET c == UnifyArgs(m.h, h[a].args, h[b].args, 1, <<>>,
                                bor \cup {a, b}, ord, fuel - 1)
             IN  IF c.st # "Ok"
                 THEN Fail(c.h, c.st, c.why)
                 ELSE Ok(c.h, KnownCell(h[a].s, h[a].ty, c.args))

\* infer.rs:46-80  the match that computes `unified`
Unified(h, a, b, bor, ord, fuel) ==
    CASE h[a].tag = "Equal" -> Unify(h, h[a].ref, b, bor, ord, fuel - 1)
      [] h[a].tag # "Equal" /\ h[b].tag = "Equal" ->
            Unify(h, a, h[b].ref, bor, ord, fuel - 1)
      [] h[a].tag = "Any" /\ h[b].tag = "Any" -> AnyAny(h, a, b)
      [] h[a].tag = "Any" /\ h[b].tag = "Known" -> AnyKnown(h, h[b])
      [] h[a].tag = "Known" /\ h[b].tag = "Any" -> AnyKnown(h, h[a])
      [] OTHER -> KnownKnown(h, a, b, bor, ord, fuel)

Unify(h, a, b, bor, ord, fuel) ==
    IF fuel = 0
    THEN Fail(h, "Panic", "overflow")
    ELSE IF PtrEq(a, b)
    THEN Ok(h, h[a])
    ELSE LET r == Unified(h, a, b, bor, ord, fuel)
         IN  IF r.st # "Ok" THEN r ELSE WriteBoth(r, a, b, bor)

\* the result of a payload merge: Result<T, ()>, or the abort of the process
TOk(h, ty) == [h |-> h, st |-> "Ok", why |-> "", ty |-> ty]

TFail(h, st, why) == [h |-> h, st |-> st, why |-> why, ty |-> NoTy]

\* Ty::unify (ty.rs:68-78).  The merged Ref / Int / Struct payload is
\* written with a's handle, whose cell holds the unified InferTy afterwards.
TyUnify(h, a, b, bor, ord, fuel) ==
    CASE a.k = "TyAny" /\ b.k = "TyAny" -> TOk(h, TyAny)
      [] a.k = "TyAny" /\ b.k # "TyAny" -> TOk(h, b)
      [] a.k # "TyAny" /\ b.k = "TyAny" -> TOk(h, a)
      [] a.k = "Bool" /\ b.k = "Bool" -> TOk(h, TyBool)
      [] a.k = b.k /\ a.k \in {"Ref", "Int", "Struct"} ->
            LET r == Unify(h, a.r, b.r, bor, ord, fuel)
            IN  IF r.st # "Ok" THEN TFail(r.h, r.st, r.why) ELSE TOk(r.h, a)
      [] OTHER -> TFail(h, "Err", "")

\* s.fields.iter().find(|field| field.name == name) (ty.rs:125): the index
\* of the first declared field of that name, 0 when there is none
Find(fields, name) ==
    IF \E i \in DOMAIN fields : fields[i].name = name
    THEN CHOOSE i \in DOMAIN fields :
            /\ fields[i].name = name
            /\ \A j \in DOMAIN fields : fields[j].name = name => i <= j
    ELSE 0

\* the names of a HashMap, in the order its iterator yields them
IterOrder(req, ord) == SelectSeq(ord, LAMBDA n : n \in DOMAIN req)

\* ty.rs:124-127  the loop over the required fields against a declared
\* struct; unwrap() panics when the struct has no such field.
RequiredLoop(h, fields, req, names, i, bor, ord, fuel) ==
    IF i > Len(names)
    THEN TOk(h, NoTy)
    ELSE LET f == Find(fields, names[i])
         IN  IF f = 0
             THEN TFail(h, "Panic", "missing")
             ELSE LET r == Unify(h, fields[f].ty, req[names[i]], bor, ord, fuel)
                  IN  IF r.st # "Ok"
                      THEN TFail(r.h, r.st, r.why)
                      ELSE RequiredLoop(r.h, fields, req, names, i + 1, bor, ord, fuel)

\* ty.rs:131-136  the loop that merges the map b into the map a
WithFieldsLoop(h, a, b, names, i, bor, ord, fuel) ==
    IF i > Len(names)
    THEN TOk(h, StructWithFields(a))
    ELSE LET name == names[i]
         IN  IF name \in DOMAIN a
             THEN LET r == Unify(h, a[name], b[name], bor, ord, fuel)
                  IN  IF r.st # "Ok"
                      THEN TFail(r.h, r.st, r.why)
                      ELSE WithFieldsLoop(r.h, a, b, names, i + 1, bor, ord, fuel)
             ELSE WithFieldsLoop(h,
                      [n \in DOMAIN a \cup {name} |->
                          IF n = name THEN b[name] ELSE a[n]],
                      b, names, i + 1, bor, ord, fuel)

\* ty.rs:117-121  two declared structs merge when they have the same name
SameNameAlways(h, a, b) == TOk(h, a)

SameName(h, a, b) ==
    IF a.name = b.name THEN TOk(h, a) ELSE TFail(h, "Err", "")

\* StructTy::unify (ty.rs:115-140)
StructTyUnify(h, a, b, bor, ord, fuel) ==
    CASE a.k = "Known" /\ b.k = "Known" -> SameName(h, a, b)
      [] a.k = "Known" /\ b.k = "WithFields" ->
            LET l == RequiredLoop(h, a.fields, b.req, IterOrder(b.req, ord), 1,
                                  bor, ord, fuel)
            IN  IF l.st # "Ok" THEN l ELSE TOk(l.h, a)
      [] a.k = "WithFields" /\ b.k = "Known" ->
            LET l == RequiredLoop(h, b.fields, a.req, IterOrder(a.req, ord), 1,
                                  bor, ord, fuel)
            IN  IF l.st # "Ok" THEN l ELSE TOk(l.h, b)
      [] OTHER ->
            WithFieldsLoop(h, a.req, b.req, IterOrder(b.req, ord), 1, bor, ord, fuel)

\* T::unify(&ty_a, &ty_b) (infer.rs:67), dispatched on the payload type T.
TUnify(h, x, y, bor, ord, fuel) ==
    CASE x.k \in {"IntAny", "IntInt"} ->
            LET m == IntTyUnify(x, y)
            IN  [h |-> h, st |-> m.st, why |-> "", ty |-> m.ty]
      [] x.k \in {"Known", "WithFields"} -> StructTyUnify(h, x, y, bor, ord, fuel)
      [] OTHER -> TyUnify(h, x, y, bor, ord, fuel)

(***************************************************************************)
(* InferTyRef::concrete (infer.rs:33-39): follows Equal links; panics on   *)
(* Any; returns a clone of the payload of a Known cell.                    *)
(***************************************************************************)
\* a concrete() that follows one Equal link only
concreteOneHop(h, a, fuel) ==
    IF fuel = 0
    THEN [st |-> "Panic", why |-> "overflow", ty |-> NoTy]
    ELSE CASE h[a].tag = "Any" -> [st |-> "Panic", why |-> "any", ty |-> NoTy]
           [] h[a].tag = "Equal" ->
                IF h[h[a].ref].tag = "Known"
                THEN [st |-> "Ok", why |-> "", ty |-> h[h[a].ref].ty]
                ELSE [st |-> "Panic", why |-> "any", ty |-> NoTy]
           [] OTHER -> [st |-> "Ok", why |-> "", ty |-> h[a].ty]

RECURSIVE concrete(_, _, _)
concrete(h, a, fuel) ==
    IF fuel = 0
    THEN [st |-> "Panic", why |-> "overflow", ty |-> NoTy]
    ELSE CASE h[a].tag = "Any" -> [st |-> "Panic", why |-> "any", ty |-> NoTy]
           [] h[a].tag = "Equal" -> concrete(h, h[a].ref, fuel - 1)
           [] OTHER -> [st |-> "Ok", why |-> "", ty |-> h[a].ty]

\* int_ty.concrete() of an IntTyRef followed by IntTy::concrete
\* (ty.rs:83, 104-109): the Int of an integer node, NoInt when it panics
IntNodeConcrete(h, a) ==
    LET c == concrete(h, a, MaxDepth)
    IN  IF c.st = "Ok" THEN IntTyConcrete(c.ty) ELSE NoInt

\* ty.concrete() of a TyRef whose payload is Ty::Int (ty.rs:83)
TyNodeConcreteInt(h, a) ==
    LET c == concrete(h, a, MaxDepth)
    IN  IF c.st = "Ok" /\ c.ty.k = "Int" THEN IntNodeConcrete(h, c.ty.r) ELSE NoInt

\* StructTy::concrete (ty.rs:141-149) of a struct whose fields are of
\* integer type: WithFields panics, Known concretizes every field
StructTyConcrete(h, ty) ==
    IF ty.k = "WithFields"
    THEN [st |-> "Panic", why |-> "withfields", fields |-> <<>>]
    ELSE LET fs == [i \in DOMAIN ty.fields |->
                        [name |-> ty.fields[i].name,
                         ty |-> TyNodeConcreteInt(h, ty.fields[i].ty)]]
         IN  IF \E i \in DOMAIN fs : fs[i].ty = NoInt
             THEN [st |-> "Panic", why |-> "any", fields |-> <<>>]
             ELSE [st |-> "Ok", why |-> "", fields |-> fs]

\* ty.concrete() of a StructTyRef followed by StructTy::concrete (ty.rs:82)
StructNodeConcrete(h, a) ==
    LET c == concrete(h, a, MaxDepth)
    IN  IF c.st = "Ok"
        THEN StructTyConcrete(h, c.ty)
        ELSE [st |-> "Panic", why |-> c.why, fields |-> <<>>]

(***************************************************************************)
(* Reading the graph.                                                      *)
(***************************************************************************)
\* the cell at the end of the Equal links from a (a itself if there is none)
RECURSIVE Terminal(_, _, _)
Terminal(h, a, fuel) ==
    IF fuel = 0 \/ h[a].tag # "Equal" THEN a ELSE Terminal(h, h[a].ref, fuel - 1)

Term(h, a) == h[Terminal(h, a, Len(h) + 1)]

\* the cells reached from a in one or more Equal hops
RECURSIVE AliasReach(_, _, _)
AliasReach(h, a, fuel) ==
    IF fuel = 0 \/ h[a].tag # "Equal"
    THEN {}
    ELSE {h[a].ref} \cup AliasReach(h, h[a].ref, fuel - 1)

\* the cells a cell refers to by its alias and its args only
RefsLinksOnly(c) ==
    (IF c.tag = "Equal" THEN {c.ref} ELSE {})
    \cup {c.args[i] : i \in DOMAIN c.args}

\* the cells a cell refers to: its alias, its args, the refs of its payload
Refs(c) ==
    (IF c.tag = "Equal" THEN {c.ref} ELSE {})
    \cup {c.args[i] : i \in DOMAIN c.args}
    \cup (IF c.ty.r # 0 THEN {c.ty.r} ELSE {})
    \cup {c.ty.fields[i].ty : i \in DOMAIN c.ty.fields}
    \cup {c.ty.req[n] : n \in DOMAIN c.ty.req}

RECURSIVE ReachFrom(_, _, _)
ReachFrom(h, S, fuel) ==
    LET T == S \cup UNION {Refs(h[c]) : c \in S}
    IN  IF fuel = 0 \/ T = S THEN S ELSE ReachFrom(h, T, fuel - 1)

Reach(h, a) == ReachFrom(h, {a}, Len(h))

(***************************************************************************)
(* The program: a client of the engine that creates nodes, unifies them    *)
(* and resolves them.  `last` is the last call and what it returned; ta,   *)
(* tb are the tags of its arguments' terminals when it was made.  A panic  *)
(* ends the program.  `unified` is the client's record of the pairs of     *)
(* nodes it has unified with success, kept where it is needed.             *)
(***************************************************************************)
Orders == {<<"x", "y">>, <<"y", "x">>}

Call(op, a, b, st, why, ta, tb, x, y, val) ==
    [op |-> op, a |-> a, b |-> b, st |-> st, why |-> why,
     ta |-> ta, tb |-> tb, x |-> x, y |-> y, val |-> val]

NoCall == Call("none", 0, 0, "Ok", "", "", "", NoTy, NoTy, NoTy)

Running == last.st # "Panic"

\* InferTyRef::any() (infer.rs:21-23)
NewAny(s, max) ==
    /\ Running
    /\ Len(heap) < max
    /\ heap' = Append(heap, AnyCell(s))
    /\ last' = Call("any", Len(heap) + 1, 0, "Ok", "", "", "", NoTy, NoTy, NoTy)
    /\ UNCHANGED unified

\* InferTyRef::known_with_args(ty, args) (infer.rs:24-29)
NewKnown(s, ty, args, max) ==
    /\ Running
    /\ Len(heap) < max
    /\ heap' = Append(heap, KnownCell(s, ty, args))
    /\ last' = Call("known", Len(heap) + 1, 0, "Ok", "", "", "", NoTy, NoTy, NoTy)
    /\ UNCHANGED unified

\* unify(a, b) (infer.rs:42-84), called by the client
UnifyCall(a, b, ord, max) ==
    /\ Running
    /\ heap[a].s = heap[b].s
    /\ LET r == Unify(heap, a, b, {}, ord, MaxDepth)
       IN  /\ Len(r.h) <= max
           /\ heap' = r.h
           /\ last' = Call("unify", a, b, r.st, r.why,
                           Term(heap, a).tag, Term(heap, b).tag, NoTy, NoTy, NoTy)

DoUnify(a, b, ord, max) == UnifyCall(a, b, ord, max) /\ UNCHANGED unified

\* unify(a, b) by a client that records the pairs it has unified
DoUnifyRecorded(a, b, ord, max) ==
    /\ UnifyCall(a, b, ord, max)
    /\ unified' = IF last'.st = "Ok" THEN unified \cup {{a, b}} ELSE unified

\* a.concrete() (infer.rs:33-39), called by the client
DoConcrete(a) ==
    /\ Running
    /\ LET r == concrete(heap, a, MaxDepth)
       IN  /\ heap' = heap
           /\ last' = Call("concrete", a, 0, r.st, r.why,
                           Term(heap, a).tag, "", NoTy, NoTy, r.ty)
    /\ UNCHANGED unified

\* IntTy::unify(x, y) (ty.rs:93-103), applied to two payloads
DoIntTyUnify(x, y) ==
    /\ Running
    /\ LET m == IntTyUnify(x, y)
       IN  /\ heap' = heap
           /\ last' = Call("merge", 0, 0, m.st, "", "", "", x, y, m.ty)
    /\ UNCHANGED unified

(***************************************************************************)
(* Spec: the engine over integer payloads, nodes with up to MaxArgs args.  *)
(***************************************************************************)
S8 == IntTyInt(MkInt("Signed", 8))

U8 == IntTyInt(MkInt("Unsigned", 8))

EnginePayloads == {IntTyAny, S8, U8}

ArgSeqs(h) == {<<>>} \cup (IF MaxArgs >= 1 THEN {<<c>> : c \in Cells(h)} ELSE {})
              \cup (IF MaxArgs >= 2 THEN {<<c, d>> : c \in Cells(h), d \in Cells(h)} ELSE {})

Init ==
    /\ heap = <<>>
    /\ last = NoCall
    /\ unified = {}

EngineAny == NewAny("Int", MaxCells)

EngineKnown ==
    \E ty \in EnginePayloads, args \in ArgSeqs(heap) : NewKnown("Int", ty, args, MaxCells)

EngineUnify ==
    \E a \in Cells(heap), b \in Cells(heap) : DoUnify(a, b, <<"x", "y">>, MaxCells)

EngineConcrete == \E a \in Cells(heap) : DoConcrete(a)

Next == EngineAny \/ EngineKnown \/ EngineUnify \/ EngineConcrete

Spec == Init /\ [][Next]_vars

(***************************************************************************)
(* SpecAlias: the engine over nodes without args and a single payload, so  *)
(* that longer alias chains fit the bound.                                 *)
(***************************************************************************)
AliasAny == NewAny("Int", MaxAliasCells)

AliasKnown == NewKnown("Int", S8, <<>>, MaxAliasCells)

AliasUnify ==
    \E a \in Cells(heap), b \in Cells(heap) : DoUnify(a, b, <<"x", "y">>, MaxAliasCells)

AliasConcrete == \E a \in Cells(heap) : DoConcrete(a)

NextAlias == AliasAny \/ AliasKnown \/ AliasUnify \/ AliasConcrete

SpecAlias == Init /\ [][NextAlias]_vars

(***************************************************************************)
(* SpecInt: integer nodes of every IntTy, and IntTy::unify on every pair   *)
(* of integer payloads.                                                    *)
(***************************************************************************)
IntAny == NewAny("Int", MaxIntCells)

IntKnown == \E ty \in AllIntTys : NewKnown("Int", ty, <<>>, MaxIntCells)

IntUnify ==
    \E a \in Cells(heap), b \in Cells(heap) : DoUnify(a, b, <<"x", "y">>, MaxIntCells)

IntConcrete == \E a \in Cells(heap) : DoConcrete(a)

IntMerge == \E x \in AllIntTys, y \in AllIntTys : DoIntTyUnify(x, y)

NextInt == IntAny \/ IntKnown \/ IntUnify \/ IntConcrete \/ IntMerge

SpecInt == Init /\ [][NextInt]_vars

(***************************************************************************)
(* SpecRow: struct row inference.  The graph a checking pass has built:    *)
(* a struct node requiring field x, a struct node requiring field y, and   *)
(* the declared struct Point with fields x and y, each field a TyRef with  *)
(* payload Ty::Int of an IntTyRef.                                         *)
(***************************************************************************)
S32 == IntTyInt(MkInt("Signed", 32))

\* the cells of the graph: integer nodes, type nodes, struct nodes
Row == [ix |-> 1, iy |-> 2, ipx |-> 3, ipy |-> 4,
        tx |-> 5, ty |-> 6, px |-> 7, py |-> 8,
        a |-> 9, b |-> 10, p |-> 11]

RowHeap(ix, iy, ipx, ipy, fields) ==
    << ix, KnownCell("Int", iy, <<>>),
       KnownCell("Int", ipx, <<>>), KnownCell("Int", ipy, <<>>),
       KnownCell("Ty", TyIntP(Row.ix), <<>>), KnownCell("Ty", TyIntP(Row.iy), <<>>),
       KnownCell("Ty", TyIntP(Row.ipx), <<>>), KnownCell("Ty", TyIntP(Row.ipy), <<>>),
       KnownCell("Struct", StructWithFields([n \in {"x"} |-> Row.tx]), <<>>),
       KnownCell("Struct", StructWithFields([n \in {"y"} |-> Row.ty]), <<>>),
       KnownCell("Struct", StructKnown("Point", fields), <<>>) >>

InitRow ==
    /\ \E ix \in {AnyCell("Int"), KnownCell("Int", IntTyAny, <<>>)},
          iy \in {S32, IntTyAny},
          ipx \in {S32, U8},
          ipy \in {S32, U8},
          fields \in {<<Field("x", Row.px), Field("y", Row.py)>>,
                      <<Field("y", Row.py), Field("x", Row.px)>>} :
          heap = RowHeap(ix, iy, ipx, ipy, fields)
    /\ last = NoCall
    /\ unified = {}

StructCells(h) == {c \in Cells(h) : h[c].s = "Struct"}

\* the client unifies struct nodes; field and integer nodes are unified by
\* the merges underneath
RowUnify ==
    \E a \in StructCells(heap), b \in StructCells(heap), ord \in Orders :
        DoUnify(a, b, ord, MaxRowCells)

RowConcrete == \E a \in Cells(heap) : DoConcrete(a)

NextRow == RowUnify \/ RowConcrete

SpecRow == InitRow /\ [][NextRow]_vars

(***************************************************************************)
(* SpecTy: the payload merges Ty::unify and StructTy::unify, each applied  *)
(* once to two payloads over a graph a checking pass has built: two        *)
(* integer nodes, the type nodes of two fields, a bool type node, the      *)
(* declared struct Point and a struct node requiring a field.              *)
(***************************************************************************)
Names == {"x", "z"}

\* the orders in which a HashMap over Names may be iterated
FieldOrders == {<<"x", "z">>, <<"z", "x">>}

\* the cells of the graph
G == [i1 |-> 1, i2 |-> 2, t1 |-> 3, t2 |-> 4, tb |-> 5, p |-> 6, w |-> 7]

Point == StructKnown("Point", <<Field("x", G.t1), Field("y", G.t2)>>)

Vector == StructKnown("Vector", <<Field("x", G.t2)>>)

TyHeap(i1, i2) ==
    << i1, KnownCell("Int", i2, <<>>),
       KnownCell("Ty", TyIntP(G.i1), <<>>), KnownCell("Ty", TyIntP(G.i2), <<>>),
       KnownCell("Ty", TyBool, <<>>),
       KnownCell("Struct", Point, <<>>),
       KnownCell("Struct", StructWithFields([n \in {"x"} |-> G.t2]), <<>>) >>

InitTy ==
    /\ \E i1 \in {AnyCell("Int")} \cup {KnownCell("Int", t, <<>>) : t \in {IntTyAny, S32, U8}},
          i2 \in {IntTyAny, S32, U8} :
          heap = TyHeap(i1, i2)
    /\ last = NoCall
    /\ unified = {}

\* the maps from some of the names to the type nodes of the fields
FieldMaps == UNION {[D -> {G.t1, G.t2}] : D \in SUBSET Names}

StructPayloads == {Point, Vector} \cup {StructWithFields(m) : m \in FieldMaps}

TyPayloads ==
    {TyAny, TyBool}
    \cup {TyRefP(r) : r \in {G.t1, G.t2, G.tb}}
    \cup {TyIntP(r) : r \in {G.i1, G.i2}}
    \cup {TyStructP(r) : r \in {G.p, G.w}}

\* T::unify(x, y) for T = StructTy (ty.rs:115-140), applied to two payloads
DoStructTyUnify(x, y, ord) ==
    /\ last.op = "none"
    /\ LET m == TUnify(heap, x, y, {}, ord, MaxDepth)
       IN  /\ heap' = m.h
           /\ last' = Call("smerge", 0, 0, m.st, m.why, "", "", x, y, m.ty)
    /\ UNCHANGED unified

\* T::unify(x, y) for T = Ty (ty.rs:68-78), applied to two payloads
DoTyUnify(x, y, ord) ==
    /\ last.op = "none"
    /\ LET m == TUnify(heap, x, y, {}, ord, MaxDepth)
       IN  /\ heap' = m.h
           /\ last' = Call("tmerge", 0, 0, m.st, m.why, "", "", x, y, m.ty)
    /\ UNCHANGED unified

StructMerge ==
    \E x \in StructPayloads, y \in StructPayloads, ord \in FieldOrders :
        DoStructTyUnify(x, y, ord)

TyMerge == \E x \in TyPayloads, y \in TyPayloads, ord \in FieldOrders : DoTyUnify(x, y, ord)

NextTy == StructMerge \/ TyMerge

SpecTy == InitTy /\ [][NextTy]_vars

(***************************************************************************)
(* SpecPersist: the engine driven by a client that records every pair of   *)
(* nodes it has unified successfully.                                      *)
(***************************************************************************)
MaxPersistCells == 4

PersistAny == NewAny("Int", MaxPersistCells)

\* the client resolves nodes to fixed integers only
PersistKnown == \E ty \in {S8, U8} : NewKnown("Int", ty, <<>>, MaxPersistCells)

PersistUnify ==
    \E a \in Cells(heap), b \in Cells(heap) :
        DoUnifyRecorded(a, b, <<"x", "y">>, MaxPersistCells)

NextPersist == PersistAny \/ PersistKnown \/ PersistUnify

SpecPersist == Init /\ [][NextPersist]_vars

(***************************************************************************)
(* Properties.                                                             *)
(***************************************************************************)
UnifyOk == last.op = "unify" /\ last.st = "Ok"

\* the step is a call unify(a, b)
UnifyStep(a, b) == last'.op = "unify" /\ last'.a = a /\ last'.b = b

\* C1 (Propagation): after a successful unify(a, b), concrete(a) and
\* concrete(b) are the same payload whenever neither panics.
C1_Propagation ==
    UnifyOk =>
        LET ca == concrete(heap, last.a, MaxDepth)
            cb == concrete(heap, last.b, MaxDepth)
        IN  (ca.st = "Ok" /\ cb.st = "Ok") => ca.ty = cb.ty

C1_Witness ==
    /\ UnifyOk
    /\ last.a # last.b
    /\ last.ta = "Any" /\ last.tb = "Known"
    /\ concrete(heap, last.a, MaxDepth).st = "Ok"
    /\ concrete(heap, last.a, MaxDepth).ty = concrete(heap, last.b, MaxDepth).ty

\* C2 (Unknown absorption): unify of a node whose terminal is Any with a
\* node whose terminal is Known{ty, args}, in either order, returns Ok and
\* leaves in both argument cells that Known: the same payload and the same
\* child cells in the same order.
C2_UnknownAbsorption ==
    [][\A a \in Cells(heap), b \in Cells(heap) :
          (/\ UnifyStep(a, b)
           /\ {Term(heap, a).tag, Term(heap, b).tag} = {"Any", "Known"})
          => LET k == IF Term(heap, a).tag = "Known"
                      THEN Term(heap, a) ELSE Term(heap, b)
             IN  /\ last'.st = "Ok"
                 /\ heap'[a] = k
                 /\ heap'[b] = k
                 /\ Len(heap') = Len(heap)]_vars

C2_Witness ==
    /\ UnifyOk
    /\ last.ta = "Any" /\ last.tb = "Known"
    /\ heap[last.a].tag = "Known"
    /\ Len(heap[last.a].args) > 0
    /\ heap[last.a] = heap[last.b]

\* C3 (Unknown x Unknown): unify(a, b) on two distinct cells that both hold
\* Any allocates exactly one cell f, which holds Any and is none of the
\* cells that existed, and leaves Equal(f) in both a and b.
C3_AnyAnyFresh ==
    [][\A a \in Cells(heap), b \in Cells(heap) :
          (/\ UnifyStep(a, b)
           /\ a # b
           /\ heap[a].tag = "Any" /\ heap[b].tag = "Any")
          => /\ last'.st = "Ok"
             /\ Len(heap') = Len(heap) + 1
             /\ heap'[Len(heap')] = AnyCell(heap[a].s)
             /\ heap'[a] = EqualCell(heap[a].s, Len(heap'))
             /\ heap'[b] = EqualCell(heap[a].s, Len(heap'))]_vars

C3_Witness ==
    /\ UnifyOk
    /\ last.a # last.b
    /\ last.ta = "Any" /\ last.tb = "Any"
    /\ heap[Len(heap)].tag = "Any"
    /\ heap[last.a] = EqualCell("Int", Len(heap))
    /\ heap[last.b] = EqualCell("Int", Len(heap))

\* C4 (Idempotence): unify(a, a) returns Ok and changes no cell, whatever
\* a holds.
C4_Idempotence ==
    [][\A a \in Cells(heap) :
          UnifyStep(a, a) => (last'.st = "Ok" /\ heap' = heap)]_vars

C4_Witness ==
    /\ UnifyOk
    /\ last.a = last.b
    /\ heap[last.a].tag = "Known"
    /\ Len(heap[last.a].args) > 0

\* C5 (Symmetry): for two nodes that share no cell, unify(a, b) and
\* unify(b, a) from the same graph both succeed or both fail, and on success
\* leave the same tag and the same payload in every cell.
Independent(h, a, b) == a # b /\ Reach(h, a) \cap Reach(h, b) = {}

C5_Symmetry ==
    \A a \in Cells(heap), b \in Cells(heap) :
        Independent(heap, a, b) =>
            LET ab == Unify(heap, a, b, {}, <<"x", "y">>, MaxDepth)
                ba == Unify(heap, b, a, {}, <<"x", "y">>, MaxDepth)
            IN  /\ ab.st = ba.st
                /\ ab.st = "Ok" =>
                      \A c \in Cells(heap) :
                          /\ ab.h[c].tag = ba.h[c].tag
                          /\ ab.h[c].ty = ba.h[c].ty

\* C6 (Alias-chain acyclicity): no cell is reached from itself through
\* Equal links, and the Equal links from every cell end in Any or Known.
C6_AliasAcyclic ==
    \A c \in Cells(heap) :
        /\ c \notin AliasReach(heap, c, Len(heap) + 1)
        /\ Term(heap, c).tag \in {"Any", "Known"}

\* after a unify on a cell that other cells alias, some cell is two Equal
\* hops away from its terminal
C6_Witness ==
    /\ UnifyOk
    /\ last.a # last.b
    /\ \E c \in Cells(heap) :
          /\ heap[c].tag = "Equal"
          /\ heap[heap[c].ref].tag = "Equal"
    /\ \E c \in Cells(heap) :
          /\ heap[c].tag = "Equal"
          /\ heap[c].ref \in {last.a, last.b}

\* C7 (Unresolved failure): concrete on a node whose Equal links end in Any
\* returns an error value to its caller; it does not abort.
C7_UnresolvedReturned ==
    (last.op = "concrete" /\ last.ta = "Any") => last.st = "Err"

\* C8 (Payload mismatch is returned): when unify reaches two Known terminals
\* whose payloads do not merge, at the top or in a child pair, it returns a
\* failure to its caller; it does not abort.
C8_MismatchReturned ==
    [][\A a \in Cells(heap), b \in Cells(heap) :
          (/\ UnifyStep(a, b)
           /\ \/ /\ Term(heap, a).tag = "Known"
                 /\ Term(heap, b).tag = "Known"
                 /\ Terminal(heap, a, Len(heap)) # Terminal(heap, b, Len(heap))
                 /\ IntTyUnify(Term(heap, a).ty, Term(heap, b).ty).st = "Err"
              \/ last'.why = "payload")
          => last'.st = "Err"]_vars

\* C9 (Integer merge): IntTy::unify returns the other side when one side
\* is IntTy::Any, the common value when both are Int and equal, and fails
\* when both are Int and differ in signedness or size; a successful unify
\* of two nodes holding the same Int leaves both nodes resolving to it.
C9_IntMerge ==
    [][/\ last'.op = "merge" =>
            LET x == last'.x
                y == last'.y
            IN  /\ x.k = "IntAny" => (last'.st = "Ok" /\ last'.val = y)
                /\ y.k = "IntAny" => (last'.st = "Ok" /\ last'.val = x)
                /\ (x.k = "IntInt" /\ y.k = "IntInt" /\ x.int = y.int)
                      => (last'.st = "Ok" /\ last'.val = x)
                /\ (x.k = "IntInt" /\ y.k = "IntInt" /\ x.int # y.int)
                      => last'.st = "Err"
       /\ \A a \in Cells(heap), b \in Cells(heap), i \in AllInts :
            (/\ UnifyStep(a, b)
             /\ heap[a] = KnownCell("Int", IntTyInt(i), <<>>)
             /\ heap[b] = KnownCell("Int", IntTyInt(i), <<>>))
            => /\ last'.st = "Ok"
               /\ IntNodeConcrete(heap', a) = i
               /\ IntNodeConcrete(heap', b) = i]_vars

C9_Witness ==
    /\ last.op = "merge"
    /\ last.x = S8
    /\ last.y = U8
    /\ last.st = "Err"

\* C10 (Struct row inference): a successful unify of two WithFields struct
\* nodes leaves in both a WithFields with the fields of both; a successful
\* unify of a WithFields node with a declared struct leaves the declared
\* struct in both, and every node the WithFields required then resolves to the
\* fixed integer of the declared field of that name.
DeclaredInt(h, s, n) == TyNodeConcreteInt(h, s.fields[Find(s.fields, n)].ty)

C10_RowInference ==
    [][\A a \in Cells(heap), b \in Cells(heap) :
          (/\ UnifyStep(a, b)
           /\ last'.st = "Ok"
           /\ heap[a].s = "Struct"
           /\ heap[a].tag = "Known" /\ heap[b].tag = "Known")
          => /\ (heap[a].ty.k = "WithFields" /\ heap[b].ty.k = "WithFields")
                   => \A c \in {a, b} :
                         /\ heap'[c].ty.k = "WithFields"
                         /\ DOMAIN heap'[c].ty.req =
                               DOMAIN heap[a].ty.req \cup DOMAIN heap[b].ty.req
             /\ ({heap[a].ty.k, heap[b].ty.k} = {"Known", "WithFields"})
                   => LET s == IF heap[a].ty.k = "Known" THEN heap[a].ty ELSE heap[b].ty
                          w == IF heap[a].ty.k = "Known" THEN heap[b].ty ELSE heap[a].ty
                      IN  /\ \A c \in {a, b} :
                                /\ heap'[c].ty.k = "Known"
                                /\ heap'[c].ty.name = s.name
                          /\ \A n \in DOMAIN w.req :
                                TyNodeConcreteInt(heap', w.req[n]) = DeclaredInt(heap, s, n)]_vars

\* C11 (Missing field is reported): merging a declared struct with a
\* WithFields that requires a name the struct does not declare returns an
\* error value to the caller; it does not abort.
Declared(s) == {s.fields[i].name : i \in DOMAIN s.fields}

KnownWith(x, y) == {x.k, y.k} = {"Known", "WithFields"}

KnownOf(x, y) == IF x.k = "Known" THEN x ELSE y

WithOf(x, y) == IF x.k = "Known" THEN y ELSE x

C11_MissingFieldReturned ==
    (/\ last.op = "smerge"
     /\ KnownWith(last.x, last.y)
     /\ ~(DOMAIN WithOf(last.x, last.y).req \subseteq Declared(KnownOf(last.x, last.y))))
    => last.st = "Err"

\* C12 (Struct name clash): the merge of two declared structs returns the
\* first of them when both have the same name and fails when the names
\* differ; no cell is modified either way.
C12_StructNames ==
    [][(/\ last'.op = "smerge"
        /\ last'.x.k = "Known" /\ last'.y.k = "Known")
       => /\ last'.x.name = last'.y.name
                => (last'.st = "Ok" /\ last'.val = last'.x)
          /\ last'.x.name # last'.y.name => last'.st = "Err"
          /\ heap' = heap]_vars

C12_Witness ==
    /\ last.op = "smerge"
    /\ last.x = Point
    /\ last.y = Vector
    /\ last.st = "Err"

\* C13 (Per-node state machine): a cell only moves Unknown -> Alias ->
\* Resolved or Unknown -> Resolved: no call that returns moves a cell from
\* Alias to Unknown or from Resolved to Alias or Unknown, and only unify
\* changes a cell.
C13_NodeStateMachine ==
    [][last'.st = "Ok" =>
         \A c \in Cells(heap) :
            /\ heap[c].tag = "Equal" => heap'[c].tag # "Any"
            /\ heap[c].tag = "Known" => heap'[c].tag = "Known"
            /\ last'.op # "unify" => heap'[c] = heap[c]]_vars

\* the number of Equal links between a cell and its terminal
Hops(h, a) == Cardinality(AliasReach(h, a, Len(h) + 1))

\* C14 as stated (Bounded alias depth): a cell whose Equal links end in a
\* Known cell is at most one Equal link away from it.
C14_OneHop ==
    Running =>
        \A c \in Cells(heap) : Term(heap, c).tag = "Known" => Hops(heap, c) <= 1

\* C14 (Bounded alias depth), amended: a cell whose Equal links end in a
\* Known cell is fewer links away from it than there are cells, possibly two
\* or more, and concrete() follows them all to return the payload of that
\* Known cell.
C14_AliasDepth ==
    Running =>
        \A c \in Cells(heap) :
            Term(heap, c).tag = "Known" =>
                /\ Hops(heap, c) < Len(heap)
                /\ concrete(heap, c, MaxDepth).st = "Ok"
                /\ concrete(heap, c, MaxDepth).ty = Term(heap, c).ty

\* concrete() has returned the payload of a cell two Equal links away
C14_Witness ==
    /\ last.op = "concrete"
    /\ last.st = "Ok"
    /\ Hops(heap, last.a) = 2
    /\ Term(heap, last.a).tag = "Known"
    /\ last.val = Term(heap, last.a).ty

\* C15 (Resolved x Resolved success): after a unify of two distinct Known
\* cells that returns, both cells hold the merge of the two payloads (the
\* fixed integer when one side is unresolved) and the same children.
C15_MergedPayload ==
    [][\A a \in Cells(heap), b \in Cells(heap) :
          (/\ UnifyStep(a, b)
           /\ last'.st = "Ok"
           /\ a # b
           /\ heap[a].tag = "Known"
           /\ heap[b].tag = "Known")
          => /\ heap'[a].tag = "Known"
             /\ heap'[a].ty = IntTyUnify(heap[a].ty, heap[b].ty).ty
             /\ heap'[b] = heap'[a]]_vars

\* the cells on the Equal links from a, a included
Chain(h, a) == {a} \cup AliasReach(h, a, Len(h) + 1)

\* C16 (Alias chase leaves intermediates untouched): a unify(a, b) that
\* returns leaves every Equal cell on the links from a and from b, a and b
\* included, with the contents it had before the call.
C16_IntermediatesUntouched ==
    [][\A a \in Cells(heap), b \in Cells(heap) :
          (UnifyStep(a, b) /\ last'.st = "Ok")
          => \A c \in Chain(heap, a) \cup Chain(heap, b) :
                heap[c].tag = "Equal" => heap'[c] = heap[c]]_vars

\* the Int that the integer node of the type node t is fixed to, NoInt when
\* that node is unresolved
FixedInt(h, t) ==
    LET c == concrete(h, t, MaxDepth)
        i == IF c.st = "Ok" /\ c.ty.k = "Int" THEN Term(h, c.ty.r) ELSE AnyCell("Int")
    IN  IF i.tag = "Known" /\ i.ty.k = "IntInt" THEN i.ty.int ELSE NoInt

NotLost(h1, h2, t) ==
    FixedInt(h1, t) # NoInt => TyNodeConcreteInt(h2, t) = FixedInt(h1, t)

\* C17 (WithFields x WithFields merge): a merge that returns has exactly the
\* names of both sides; a name of one side keeps that side's type node; the
\* two type nodes of a common name concretize equally afterwards, to the
\* fixed type of either side if there is one; the merge does not succeed
\* when the two nodes of a common name are fixed to different integers.
C17_WithFieldsMerge ==
    [][(/\ last'.op = "smerge"
        /\ last'.x.k = "WithFields"
        /\ last'.y.k = "WithFields")
       => LET x == last'.x.req
              y == last'.y.req
              v == last'.val.req
          IN  /\ (\E n \in DOMAIN x \cap DOMAIN y :
                     /\ FixedInt(heap, x[n]) # NoInt
                     /\ FixedInt(heap, y[n]) # NoInt
                     /\ FixedInt(heap, x[n]) # FixedInt(heap, y[n]))
                 => last'.st # "Ok"
              /\ last'.st = "Ok" =>
                    /\ last'.val.k = "WithFields"
                    /\ DOMAIN v = DOMAIN x \cup DOMAIN y
                    /\ \A n \in DOMAIN x \ DOMAIN y : v[n] = x[n]
                    /\ \A n \in DOMAIN y \ DOMAIN x : v[n] = y[n]
                    /\ \A n \in DOMAIN x \cap DOMAIN y :
                          /\ TyNodeConcreteInt(heap', x[n]) = TyNodeConcreteInt(heap', y[n])
                          /\ NotLost(heap, heap', x[n])
                          /\ NotLost(heap, heap', y[n])]_vars

\* C18 (Termination): no call overflows the stack, and after a call that
\* returns no cell is reached from itself through the links of the graph
\* (children included).
C18_NoCycle ==
    /\ last.why # "overflow"
    /\ last.st = "Ok" =>
          \A c \in Cells(heap) : c \notin ReachFrom(heap, Refs(heap[c]), Len(heap))

\* the kinds of Ty whose merge unifies the inner nodes
InnerKinds == {"Ref", "Int", "Struct"}

\* C19 (Type kind merge): the merge of Any with a payload returns that
\* payload, Bool x Bool returns Bool, Ref x Ref, Int x Int and
\* Struct x Struct unify the inner nodes and return the failure when that
\* unification does not succeed, and every other pairing returns a failure
\* and leaves every cell as it was.
C19_KindMerge ==
    [][last'.op = "tmerge" =>
         LET x == last'.x
             y == last'.y
         IN  CASE x.k = "TyAny" ->
                    last'.st = "Ok" /\ last'.val = y /\ heap' = heap
               [] y.k = "TyAny" ->
                    last'.st = "Ok" /\ last'.val = x /\ heap' = heap
               [] x.k = "Bool" /\ y.k = "Bool" ->
                    last'.st = "Ok" /\ last'.val = TyBool /\ heap' = heap
               [] x.k = y.k /\ x.k \in InnerKinds ->
                    \E ord \in FieldOrders :
                        LET u == Unify(heap, x.r, y.r, {}, ord, MaxDepth)
                        IN  /\ heap' = u.h
                            /\ last'.st = IF u.st = "Ok" THEN "Ok" ELSE "Err"
               [] OTHER -> last'.st = "Err" /\ heap' = heap]_vars

\* two nodes are both unresolved, or both resolved to the same Int
Equivalent(h, a, b) ==
    LET ca == concrete(h, a, MaxDepth)
        cb == concrete(h, b, MaxDepth)
    IN  \/ ca.st # "Ok" /\ cb.st # "Ok"
        \/ /\ ca.st = "Ok"
           /\ cb.st = "Ok"
           /\ IntTyConcrete(ca.ty) = IntTyConcrete(cb.ty)

\* C20 (Unification is persistent): two nodes that a unify has unified are
\* equivalent after every later unify that returns.
C20_Persistent ==
    Running => \A p \in unified : \A a \in p, b \in p : Equivalent(heap, a, b)

\* C21 (No conflicting cell access): no unify writes a cell that an
\* enclosing frame of the call still holds borrowed, so no call aborts on the
\* borrow check of a cell.
C21_NoBorrowConflict == ~(last.op = "unify" /\ last.why = "borrow")

\* the cells reached from a through Equal links and args only
RECURSIVE LinkReachFrom(_, _, _)
LinkReachFrom(h, S, fuel) ==
    LET T == S \cup UNION {RefsLinksOnly(h[c]) : c \in S}
    IN  IF fuel = 0 \/ T = S THEN S ELSE LinkReachFrom(h, T, fuel - 1)

C23_IntDefault ==
    \A c \in Cells(heap) :
        /\ (/\ heap[c].s = "Int"
            /\ Term(heap, c).tag = "Known"
            /\ Term(heap, c).ty.k = "IntAny")
           => /\ concrete(heap, c, MaxDepth).st = "Ok"
              /\ IntNodeConcrete(heap, c) = MkInt("Signed", 32)
        /\ Term(heap, c).tag = "Any"
           => concrete(heap, c, MaxDepth).st = "Panic"
        /\ (/\ heap[c].s = "Struct"
            /\ Term(heap, c).tag = "Known"
            /\ Term(heap, c).ty.k = "WithFields")
           => StructNodeConcrete(heap, c).st = "Panic"

\* concrete() has returned IntTy::Any for an integer node, which then
\* concretizes to Int(Signed, B32), while a struct node is still WithFields
\* and an integer node is still Any
C23_Witness ==
    /\ last.op = "concrete"
    /\ last.st = "Ok"
    /\ heap[last.a].s = "Int"
    /\ last.val = IntTyAny
    /\ IntNodeConcrete(heap, last.a) = S32.int
    /\ \E c \in Cells(heap) : heap[c].s = "Struct" /\ Term(heap, c).ty.k = "WithFields"
    /\ \E c \in Cells(heap) : Term(heap, c).tag = "Any"

====
